---------------------------- MODULE Spec2Model ----------------------------
(***************************************************************************)
(* A model of the dye-mask sequence finder (uhhhhh.py): the mask math,     *)
(* the breadth-first search over mask space, and the process-wide          *)
(* app.config the search reads while request handlers write it.            *)
(***************************************************************************)
EXTENDS Integers, Sequences, FiniteSets, TLC

(***************************************************************************)
(* Bounds of the model.                                                    *)
(***************************************************************************)
\* MAX_DEPTH (and the max_depth argument) ranges over 0..MaxDepthBound.
MaxDepthBound == 2

\* The server handles up to NumThreads requests at once (app.run serves each
\* request in a thread of its own) and the model follows MaxRequests requests.
NumThreads == 2
MaxRequests == 3

\* The calls made one after another that the model follows.
MaxCalls == 3

\* The longest dye sequence handed to pretty_sequence on its own.
MaxSeqLen == 4

\* The values the inputs are drawn from.  ADD_VALUE / SUB_VALUE are whatever
\* integers Save Settings stored: the shipped 32 / 16, values that clamp at
\* once, zero and a negative one.
Bases == { <<241, 219, 29>>, <<255, 255, 255>>, <<0, 128, 255>> }
Targets == { <<241, 219, 29>>, <<0, 0, 0>>, <<255, 0, 0>>, <<241, 205, 27>>,
             <<255, 255, 255>>, <<0, 128, 255>> }
AddValues == { 32, 300, -16 }
SubValues == { 16, 0, 255 }

VARIABLES
    config,     \* app.config: START_RGB, ADD_VALUE, SUB_VALUE, MAX_DEPTH
    search,     \* the frame of one find_sequence_to_target call run alone
    cookie,     \* per user, the session the browser holds (Flask's signed cookie)
    threads,    \* per server thread, the request it is handling and its locals
    nreq,       \* the number of requests received so far
    returned,   \* what the calls made one after another returned, oldest first
    probe       \* the argument and the value of one call of a pure function

vars == <<config, search, cookie, threads, nreq, returned, probe>>

(***************************************************************************)
(* CONFIG / MASK MATH                                                      *)
(***************************************************************************)
DYES == <<"red", "green", "blue", "black">>

Min2(a, b) == IF a < b THEN a ELSE b
Max2(a, b) == IF a > b THEN a ELSE b
Abs(x) == IF x < 0 THEN -x ELSE x

\* Mutant of clamp255: the clamp left out.
clamp255_off(x) == x

clamp255(x) == Max2(0, Min2(255, x))

\* Mutant of dye_vector: black follows the configured sub like the others.
dye_vector_black_sub(dye, add_val, sub_val) ==
    CASE dye = "red"   -> << add_val, -sub_val, -sub_val>>
      [] dye = "green" -> <<-sub_val,  add_val, -sub_val>>
      [] dye = "blue"  -> <<-sub_val, -sub_val,  add_val>>
      [] dye = "black" -> <<-sub_val, -sub_val, -sub_val>>

dye_vector(dye, add_val, sub_val) ==
    CASE dye = "red"   -> << add_val, -sub_val, -sub_val>>
      [] dye = "green" -> <<-sub_val,  add_val, -sub_val>>
      [] dye = "blue"  -> <<-sub_val, -sub_val,  add_val>>
      [] dye = "black" -> <<-32, -32, -32>>

\* app_config is the app.config the call reads when it runs.
apply_dye_to_mask(app_config, mask, dye) ==
    LET add_val == app_config.ADD_VALUE
        sub_val == app_config.SUB_VALUE
        dv == dye_vector(dye, add_val, sub_val)
    IN  << clamp255(mask[1] + dv[1]),
           clamp255(mask[2] + dv[2]),
           clamp255(mask[3] + dv[3]) >>

\* int(round(n / 255.0)) for an integer n: the quotient is never half-way
\* between two integers (2n = 255(2k+1) has no solution), and its distance
\* to a half is at least 1/510, so the float rounds to the nearest integer.
round_div255(n) == (2 * n + 255) \div 510

apply_mask_to_color(base_rgb, mask) ==
    LET r == round_div255(base_rgb[1] * mask[1])
        g == round_div255(base_rgb[2] * mask[2])
        b == round_div255(base_rgb[3] * mask[3])
    IN  << clamp255(r), clamp255(g), clamp255(b) >>

\* Mutant of manhattan: the abs() left out.
manhattan_noabs(a, b) == (a[1] - b[1]) + (a[2] - b[2]) + (a[3] - b[3])

manhattan(a, b) == Abs(a[1] - b[1]) + Abs(a[2] - b[2]) + Abs(a[3] - b[3])

(***************************************************************************)
(* SEARCH (BFS over MASK space)                                            *)
(***************************************************************************)
start_mask == <<255, 255, 255>>

\* The frame before the call.
NoCall == [pc |-> "idle"]

\* Mutant of find_sequence_to_target: visited outlives the call (a
\* module-level set, or a mutable default argument).
find_sequence_to_target_stale(app_config, target_rgb) ==
    LET start_color == apply_mask_to_color(app_config.START_RGB, start_mask)
    IN  [ pc         |-> "loop",
          target_rgb |-> target_rgb,
          max_depth  |-> app_config.MAX_DEPTH,
          start_rgb  |-> app_config.START_RGB,
          q          |-> << [mask |-> start_mask, seq |-> << >>] >>,
          visited    |-> { start_mask } \cup
                           (IF search.pc = "returned" THEN search.visited ELSE {}),
          best_mask  |-> start_mask,
          best_seq   |-> << >>,
          best_color |-> start_color,
          best_diff  |-> manhattan(start_color, target_rgb),
          log        |-> << >> ]

\* Lines 62-75: the locals of the call at the first test of `while q`.
\* log is the history of the loop: one entry per iteration, oldest first.
find_sequence_to_target(app_config, target_rgb) ==
    LET max_depth == app_config.MAX_DEPTH
        start_rgb == app_config.START_RGB
        start_color == apply_mask_to_color(start_rgb, start_mask)
    IN  [ pc         |-> "loop",
          target_rgb |-> target_rgb,
          max_depth  |-> max_depth,
          start_rgb  |-> start_rgb,
          q          |-> << [mask |-> start_mask, seq |-> << >>] >>,
          visited    |-> { start_mask },
          best_mask  |-> start_mask,
          best_seq   |-> << >>,
          best_color |-> start_color,
          best_diff  |-> manhattan(start_color, target_rgb),
          log        |-> << >> ]

\* Mutant of seen: the visited test left out.
seen_never(nxt_mask, visited) == FALSE

\* The membership test of line 94.
seen(nxt_mask, visited) == nxt_mask \in visited

\* Mutant of child: the dye is not added to the sequence.
child_no_dye(nxt_mask, seq, dye) == [mask |-> nxt_mask, seq |-> seq]

\* The entry of line 96: (nxt_mask, seq + [dye]).
child(nxt_mask, seq, dye) == [mask |-> nxt_mask, seq |-> Append(seq, dye)]

\* Lines 92-96: the for loop over DYES, from the i-th dye on.
RECURSIVE expand(_, _, _, _)
expand(app_config, s, node, i) ==
    IF i > Len(DYES) THEN s
    ELSE LET dye == DYES[i]
             nxt_mask == apply_dye_to_mask(app_config, node.mask, dye)
         IN  IF ~ seen(nxt_mask, s.visited)
             THEN expand(app_config,
                         [s EXCEPT !.visited = @ \cup {nxt_mask},
                                   !.q = Append(@, child(nxt_mask, node.seq, dye))],
                         node, i + 1)
             ELSE expand(app_config, s, node, i + 1)

\* Mutant of popleft: q.pop(), the newest entry taken first.
pop_right(q) == <<q[Len(q)], SubSeq(q, 1, Len(q) - 1)>>

\* q.popleft() of line 78: the entry taken and the queue left.
popleft(q) == <<Head(q), Tail(q)>>

\* Mutants of too_deep: the bound off by one, either way.
too_deep_early(seq, max_depth) == Len(seq) >= max_depth
too_deep_late(seq, max_depth) == Len(seq) > max_depth + 1

\* The depth test of line 79.
too_deep(seq, max_depth) == Len(seq) > max_depth

\* Mutant of improves: a tie replaces the best.
improves_or_ties(diff, best_diff) == diff <= best_diff

\* Mutant of improves: the comparison turned round.
improves_reversed(diff, best_diff) == diff > best_diff

\* The comparison of line 84.
improves(diff, best_diff) == diff < best_diff

\* Mutant of exact_match: the search stops at a distance that is only near.
exact_match_near(best_diff) == best_diff <= 400

\* The test of line 89, reached only inside the branch of line 84.
exact_match(best_diff) == best_diff = 0

\* Lines 78-96: one iteration of `while q`, q not empty.
loop_body(app_config, s) ==
    LET node == popleft(s.q)[1]
        s0 == [s EXCEPT !.q = popleft(s.q)[2]]
    IN  IF too_deep(node.seq, s.max_depth)
        THEN [s0 EXCEPT !.log = Append(@, [mask |-> node.mask, seq |-> node.seq,
                                           act |-> "continue", diff |-> -1])]
        ELSE
          LET color == apply_mask_to_color(s.start_rgb, node.mask)
              diff == manhattan(color, s.target_rgb)
              entry(a) == [mask |-> node.mask, seq |-> node.seq,
                           act |-> a, diff |-> diff]
              s1 == IF improves(diff, s.best_diff)
                    THEN [s0 EXCEPT !.best_diff = diff,
                                    !.best_mask = node.mask,
                                    !.best_seq = node.seq,
                                    !.best_color = color]
                    ELSE s0
          IN  IF improves(diff, s.best_diff) /\ exact_match(s1.best_diff)
              THEN [s1 EXCEPT !.pc = "done", !.log = Append(@, entry("break"))]
              ELSE expand(app_config,
                          [s1 EXCEPT !.log = Append(@, entry("expand"))],
                          node, 1)

\* Line 98: what the call returns.
result(s) == <<s.best_seq, s.best_mask, s.best_color, s.best_diff>>

(***************************************************************************)
(* PRESENTATION                                                            *)
(***************************************************************************)
\* The run of equal tokens at the head of seq (itertools.groupby's group).
\* Mutant of run_length: every group holds one token.
run_length_one(seq) == 1

RECURSIVE run_length(_)
run_length(seq) ==
    IF Len(seq) >= 2 /\ seq[2] = seq[1] THEN 1 + run_length(Tail(seq)) ELSE 1

\* Lines 110-119: one "<n>x <token>" part per group.
RECURSIVE parts(_)
parts(seq) ==
    IF seq = << >> THEN << >>
    ELSE LET n == run_length(seq)
         IN  << [n |-> n, token |-> seq[1]] >> \o parts(SubSeq(seq, n + 1, Len(seq)))

\* Lines 101-120: the text returned, as the marker of line 103 (empty when
\* dyes were applied) and the parts joined by line 120.
pretty_sequence(seq) ==
    IF seq = << >> THEN [marker |-> "No dyes applied", parts |-> << >>]
    ELSE [marker |-> "", parts |-> parts(seq)]

(***************************************************************************)
(* SESSIONS AND REQUESTS                                                   *)
(***************************************************************************)
Users == { "u1", "u2" }
Threads == 1 .. NumThreads

\* None, and a value that may be None: << >> or <<value>>.
None == << >>
Some(v) == <<v>>
the(opt) == opt[1]

\* A form field: text that int() accepts, with its value, or text that it
\* rejects.
Num(n) == [isint |-> TRUE, val |-> n]
NotANumber == [isint |-> FALSE, val |-> 0]

\* int(x) of a form field: whether it parses, and the value.
parses(x) == x.isint
int(x) == x.val

\* A session nothing was stored in.
NewSession == [ start_rgb |-> None, history |-> << >>, current |-> None,
                base_rgbs |-> << >> ]

IdleThread == [ pc |-> "idle" ]

\* No pure function is being called.
NoProbe == [ pc |-> "idle" ]

\* The forms the requests carry.
HomeForms == { [r |-> Num(255), g |-> Num(0), b |-> Num(0)],
               [r |-> NotANumber, g |-> Num(0), b |-> Num(0)] }
SettingsForms ==
    { [sr |-> Num(0), sg |-> Num(128), sb |-> Num(255),
       add |-> Num(300), sub |-> Num(255), depth |-> Num(1)],
      [sr |-> Num(255), sg |-> Num(255), sb |-> Num(255),
       add |-> NotANumber, sub |-> Num(0), depth |-> Num(0)],
      [sr |-> NotANumber, sg |-> Num(0), sb |-> Num(0),
       add |-> Num(32), sub |-> Num(16), depth |-> Num(1)] }
PresetForms == { [preset_name |-> "p", preset_r |-> Num(300),
                  preset_g |-> Num(-5), preset_b |-> Num(7)] }
PresetIndexes == { 0, 1 }

Requests ==
    [kind : {"home_post"}, form : HomeForms]
      \cup [kind : {"save_settings"}, form : SettingsForms]
      \cup [kind : {"save_base_rgb"}, form : PresetForms]
      \cup [kind : {"use_preset"}, form : [preset_idx : PresetIndexes]]
      \cup [kind : {"home_get"}, form : { << >> }]

\* seq[-n:]
last_n(seq, n) == IF Len(seq) <= n THEN seq ELSE SubSeq(seq, Len(seq) - n + 1, Len(seq))

\* Lines 50-58: the START_RGB app.config holds after the before-request hook.
sync_start_rgb_from_session(app_config, sess) ==
    IF sess.start_rgb # None
    THEN [app_config EXCEPT !.START_RGB = the(sess.start_rgb)]
    ELSE app_config

\* Lines 455-458: the target of a search POST.
parse_target(form) ==
    IF parses(form.r) /\ parses(form.g) /\ parses(form.b)
    THEN <<int(form.r), int(form.g), int(form.b)>>
    ELSE <<0, 0, 0>>

\* Lines 462-469.
home_result(s, target) ==
    [ sequence |-> pretty_sequence(result(s)[1]),
      raw_steps |-> result(s)[1],
      final_mask |-> result(s)[2],
      final_color |-> result(s)[3],
      target |-> target,
      diff |-> result(s)[4] ]

\* Lines 471-482: the session after a search POST (ts left out).
home_store(sess, res) ==
    [sess EXCEPT !.history = last_n(Append(@, [ sequence |-> res.sequence,
                                                 final_mask |-> res.final_mask,
                                                 final_color |-> res.final_color,
                                                 target |-> res.target,
                                                 diff |-> res.diff ]), 10),
                 !.current = Some(res)]

\* Lines 496-503: what the home page renders.
home_page(app_config, sess, res) ==
    [ result |-> IF res # None THEN res ELSE sess.current,
      start_rgb |-> IF sess.start_rgb # None THEN the(sess.start_rgb)
                    ELSE app_config.START_RGB,
      add_value |-> app_config.ADD_VALUE,
      sub_value |-> app_config.SUB_VALUE ]

\* Lines 225-231: dv(name) of the visualizer script.
js_dv(name, addVal, subVal) ==
    CASE name = "red"   -> << addVal, -subVal, -subVal>>
      [] name = "green" -> <<-subVal,  addVal, -subVal>>
      [] name = "blue"  -> <<-subVal, -subVal,  addVal>>
      [] name = "black" -> <<-32, -32, -32>>
      [] OTHER          -> <<0, 0, 0>>

\* Line 232.
js_clamp255(x) == Max2(0, Min2(255, x))

\* Lines 233-239, one channel: Math.round(clamp255(c * m / 255)).  The
\* quotient is clamped before it is rounded, and Math.round rounds halves
\* up (c * m / 255 is never half-way between two integers).
js_channel(c, m) ==
    IF c * m <= 0 THEN 0
    ELSE IF c * m >= 255 * 255 THEN 255
    ELSE (2 * c * m + 255) \div 510

js_applyMaskToColor(rgb, mask) ==
    << js_channel(rgb[1], mask[1]), js_channel(rgb[2], mask[2]),
       js_channel(rgb[3], mask[3]) >>

\* Lines 250-261: the mask after the steps were played from `mask`.
RECURSIVE js_play(_, _, _, _)
js_play(mask, steps, addVal, subVal) ==
    IF steps = << >> THEN mask
    ELSE LET d == js_dv(Head(steps), addVal, subVal)
         IN  js_play(<< js_clamp255(mask[1] + d[1]), js_clamp255(mask[2] + d[2]),
                        js_clamp255(mask[3] + d[3]) >>,
                     Tail(steps), addVal, subVal)

\* Lines 549-557: the session after Save Base RGB.
save_base_rgb(sess, form) ==
    IF ~ (parses(form.preset_r) /\ parses(form.preset_g) /\ parses(form.preset_b))
    THEN sess
    ELSE LET r == Max2(0, Min2(255, int(form.preset_r)))
             g == Max2(0, Min2(255, int(form.preset_g)))
             b == Max2(0, Min2(255, int(form.preset_b)))
         IN  IF form.preset_name # ""
             THEN [sess EXCEPT !.base_rgbs =
                       Append(@, [name |-> form.preset_name, rgb |-> <<r, g, b>>])]
             ELSE sess

(***************************************************************************)
(* One call of find_sequence_to_target, run alone.                         *)
(***************************************************************************)
Init ==
    /\ config \in [ START_RGB : Bases, ADD_VALUE : AddValues,
                    SUB_VALUE : SubValues, MAX_DEPTH : 0 .. MaxDepthBound ]
    /\ search = NoCall
    /\ cookie = [u \in Users |-> NewSession]
    /\ threads = [t \in Threads |-> IdleThread]
    /\ nreq = 0
    /\ returned = << >>
    /\ probe = NoProbe

Call ==
    /\ search.pc = "idle"
    /\ \E target_rgb \in Targets :
          search' = find_sequence_to_target(config, target_rgb)
    /\ UNCHANGED <<config, cookie, threads, nreq, returned, probe>>

Loop ==
    /\ search.pc = "loop"
    /\ search.q # << >>
    /\ search' = loop_body(config, search)
    /\ UNCHANGED <<config, cookie, threads, nreq, returned, probe>>

Return ==
    /\ search.pc = "loop"
    /\ search.q = << >>
    /\ search' = [search EXCEPT !.pc = "done"]
    /\ UNCHANGED <<config, cookie, threads, nreq, returned, probe>>

Next == Call \/ Loop \/ Return

Spec == Init /\ [][Next]_vars


(***************************************************************************)
(* One call whose depth bound never cuts a node off: MAX_DEPTH is the      *)
(* shipped 48 and ADD_VALUE / SUB_VALUE are values whose whole mask space  *)
(* lies within 48 dye applications.  The call runs to completion once it   *)
(* has started (it has no suspension point), hence the fairness.           *)
(***************************************************************************)
ShippedMaxDepth == 48

DeepAddSub == { <<300, 255>>, <<0, 0>>, <<-16, 16>>, <<-300, 0>> }

DeepInit ==
    /\ \E b \in { <<241, 219, 29>>, <<0, 128, 255>> } : \E as \in DeepAddSub :
          config = [ START_RGB |-> b, ADD_VALUE |-> as[1], SUB_VALUE |-> as[2],
                     MAX_DEPTH |-> ShippedMaxDepth ]
    /\ search = NoCall
    /\ cookie = [u \in Users |-> NewSession]
    /\ threads = [t \in Threads |-> IdleThread]
    /\ nreq = 0
    /\ returned = << >>
    /\ probe = NoProbe

DeepSpec == DeepInit /\ [][Next]_vars /\ WF_vars(Next)

(***************************************************************************)
(* Calls of find_sequence_to_target made one after another, the settings   *)
(* saved anew between some of them.                                        *)
(***************************************************************************)
SeqConfigs ==
    { [ START_RGB |-> <<241, 219, 29>>, ADD_VALUE |-> 32, SUB_VALUE |-> 16,
        MAX_DEPTH |-> 2 ],
      [ START_RGB |-> <<0, 128, 255>>, ADD_VALUE |-> 300, SUB_VALUE |-> 255,
        MAX_DEPTH |-> 1 ] }
SeqTargets == { <<255, 0, 0>>, <<0, 0, 0>>, <<241, 219, 29>> }

SeqInit ==
    /\ config \in SeqConfigs
    /\ search = NoCall
    /\ cookie = [u \in Users |-> NewSession]
    /\ threads = [t \in Threads |-> IdleThread]
    /\ nreq = 0
    /\ returned = << >>
    /\ probe = NoProbe

\* No call is running.
Between == search.pc \in { "idle", "returned" }

SeqCall ==
    /\ Between
    /\ Len(returned) < MaxCalls
    /\ \E target_rgb \in SeqTargets :
          search' = find_sequence_to_target(config, target_rgb)
    /\ UNCHANGED <<config, cookie, threads, nreq, returned, probe>>

\* Lines 533-545 with every field parsing, between two calls.
SeqConfigure ==
    /\ Between
    /\ Len(returned) < MaxCalls
    /\ \E c \in SeqConfigs : c # config /\ config' = c
    /\ UNCHANGED <<search, cookie, threads, nreq, returned, probe>>

\* Line 98: the caller receives the result.
SeqReturned ==
    /\ search.pc = "done"
    /\ returned' = Append(returned,
                          [ base |-> config.START_RGB, target |-> search.target_rgb,
                            add |-> config.ADD_VALUE, sub |-> config.SUB_VALUE,
                            depth |-> config.MAX_DEPTH, result |-> result(search) ])
    /\ search' = [search EXCEPT !.pc = "returned"]
    /\ UNCHANGED <<config, cookie, threads, nreq, probe>>

SeqNext == SeqCall \/ SeqConfigure \/ Loop \/ Return \/ SeqReturned

SeqSpec == SeqInit /\ [][SeqNext]_vars

(***************************************************************************)
(* apply_dye_to_mask on its own: one call at a time on a mask, a dye and   *)
(* the ADD_VALUE / SUB_VALUE of the moment.                                *)
(***************************************************************************)
ProbeChannels == { 0, 15, 31, 32, 240, 255 }
ProbeMasks == { <<r, g, b>> : r \in ProbeChannels, g \in ProbeChannels,
                              b \in ProbeChannels }
ProbeAdds == { -300, 0, 32, 300 }
ProbeSubs == { -5, 16, 255 }

DyeInit ==
    /\ \E a \in ProbeAdds : \E s \in ProbeSubs :
          config = [ START_RGB |-> <<241, 219, 29>>, ADD_VALUE |-> a,
                     SUB_VALUE |-> s, MAX_DEPTH |-> ShippedMaxDepth ]
    /\ search = NoCall
    /\ cookie = [u \in Users |-> NewSession]
    /\ threads = [t \in Threads |-> IdleThread]
    /\ nreq = 0
    /\ returned = << >>
    /\ probe = NoProbe

DyeCall ==
    /\ probe.pc = "idle"
    /\ \E mask \in ProbeMasks : \E dye \in { DYES[i] : i \in 1 .. Len(DYES) } :
          probe' = [ pc |-> "applied", mask |-> mask, dye |-> dye,
                     add |-> config.ADD_VALUE, sub |-> config.SUB_VALUE,
                     out |-> apply_dye_to_mask(config, mask, dye) ]
    /\ UNCHANGED <<config, search, cookie, threads, nreq, returned>>

DyeReturn ==
    /\ probe.pc = "applied"
    /\ probe' = NoProbe
    /\ UNCHANGED <<config, search, cookie, threads, nreq, returned>>

\* Lines 539-540: ADD_VALUE and SUB_VALUE saved between two calls.
DyeConfigure ==
    /\ probe.pc = "idle"
    /\ \E a \in ProbeAdds : \E s \in ProbeSubs :
          /\ <<a, s>> # <<config.ADD_VALUE, config.SUB_VALUE>>
          /\ config' = [config EXCEPT !.ADD_VALUE = a, !.SUB_VALUE = s]
    /\ UNCHANGED <<search, cookie, threads, nreq, returned, probe>>

DyeNext == DyeCall \/ DyeReturn \/ DyeConfigure

DyeSpec == DyeInit /\ [][DyeNext]_vars

(***************************************************************************)
(* The shipped app.config of lines 11-16, and searches whose loop ends by  *)
(* the break of line 90.                                                   *)
(***************************************************************************)
ShippedConfig ==
    [ START_RGB |-> <<241, 219, 29>>, ADD_VALUE |-> 32, SUB_VALUE |-> 16,
      MAX_DEPTH |-> ShippedMaxDepth ]
ShippedTargets == { <<0, 0, 0>>, <<241, 205, 27>>, <<226, 192, 29>> }

ShippedInit ==
    /\ config = ShippedConfig
    /\ search = NoCall
    /\ cookie = [u \in Users |-> NewSession]
    /\ threads = [t \in Threads |-> IdleThread]
    /\ nreq = 0
    /\ returned = << >>
    /\ probe = NoProbe

ShippedCall ==
    /\ search.pc = "idle"
    /\ \E target_rgb \in ShippedTargets :
          search' = find_sequence_to_target(config, target_rgb)
    /\ UNCHANGED <<config, cookie, threads, nreq, returned, probe>>

\* Return is left out: q is not empty at any test of `while q` of these
\* calls (C17_AllBlackToZero states it), so the step is never enabled.
ShippedNext == ShippedCall \/ Loop

ShippedSpec == ShippedInit /\ [][ShippedNext]_vars

(***************************************************************************)
(* pretty_sequence on its own: one call at a time on a sequence of dyes.   *)
(***************************************************************************)
DyeSeqs == UNION { [1 .. n -> { DYES[i] : i \in 1 .. Len(DYES) }] : n \in 0 .. MaxSeqLen }

FormatInit ==
    /\ config = [ START_RGB |-> <<241, 219, 29>>, ADD_VALUE |-> 32,
                  SUB_VALUE |-> 16, MAX_DEPTH |-> ShippedMaxDepth ]
    /\ search = NoCall
    /\ cookie = [u \in Users |-> NewSession]
    /\ threads = [t \in Threads |-> IdleThread]
    /\ nreq = 0
    /\ returned = << >>
    /\ probe = NoProbe

FormatCall ==
    /\ probe.pc = "idle"
    /\ \E seq \in DyeSeqs :
          probe' = [ pc |-> "formatted", seq |-> seq, out |-> pretty_sequence(seq) ]
    /\ UNCHANGED <<config, search, cookie, threads, nreq, returned>>

FormatReturn ==
    /\ probe.pc = "formatted"
    /\ probe' = NoProbe
    /\ UNCHANGED <<config, search, cookie, threads, nreq, returned>>

FormatNext == FormatCall \/ FormatReturn

FormatSpec == FormatInit /\ [][FormatNext]_vars

(***************************************************************************)
(* The server: requests handled in threads that share app.config.  A       *)
(* thread's step is one statement group of its handler; the steps of the   *)
(* threads interleave.                                                     *)
(***************************************************************************)
\* MAX_DEPTH as an earlier Save Settings left it (the shipped 48 otherwise).
WebInit ==
    /\ config = [ START_RGB |-> <<241, 219, 29>>, ADD_VALUE |-> 32,
                  SUB_VALUE |-> 16, MAX_DEPTH |-> 1 ]
    /\ search = NoCall
    /\ cookie = [u \in Users |-> NewSession]
    /\ threads = [t \in Threads |-> IdleThread]
    /\ nreq = 0
    /\ returned = << >>
    /\ probe = NoProbe

\* A request arrives with the session of the user's cookie and is handed to
\* the first free thread.  modified tells whether the handler assigned to a
\* key of the session: only then does the response carry the session back.
Receive(t) ==
    /\ threads[t].pc = "idle"
    /\ \A t2 \in Threads : t2 < t => threads[t2].pc # "idle"
    /\ nreq < MaxRequests
    /\ \E u \in Users : \E rq \in Requests :
          threads' = [threads EXCEPT ![t] =
              [ pc |-> "before_request", user |-> u, req |-> rq,
                session |-> cookie[u], modified |-> FALSE,
                search |-> NoCall, cfg0 |-> None ]]
    /\ nreq' = nreq + 1
    /\ UNCHANGED <<config, search, cookie, returned, probe>>

\* Lines 50-58.
BeforeRequest(t) ==
    /\ threads[t].pc = "before_request"
    /\ config' = sync_start_rgb_from_session(config, threads[t].session)
    /\ threads' = [threads EXCEPT ![t].pc = threads[t].req.kind]
    /\ UNCHANGED <<search, cookie, nreq, returned, probe>>

\* Lines 454-460 and 62-75: the search begins.  cfg0 keeps the app.config
\* in force at that moment.
HomePostCall(t) ==
    /\ threads[t].pc = "home_post"
    /\ threads' = [threads EXCEPT
          ![t].search = find_sequence_to_target(config, parse_target(threads[t].req.form)),
          ![t].cfg0 = Some(config),
          ![t].pc = "searching"]
    /\ UNCHANGED <<config, search, cookie, nreq, returned, probe>>

\* Lines 77-96: one iteration, with the app.config of the moment.
SearchLoop(t) ==
    /\ threads[t].pc = "searching"
    /\ threads[t].search.pc = "loop"
    /\ threads[t].search.q # << >>
    /\ threads' = [threads EXCEPT ![t].search = loop_body(config, @)]
    /\ UNCHANGED <<config, search, cookie, nreq, returned, probe>>

SearchReturn(t) ==
    /\ threads[t].pc = "searching"
    /\ threads[t].search.pc = "loop"
    /\ threads[t].search.q = << >>
    /\ threads' = [threads EXCEPT ![t].search.pc = "done"]
    /\ UNCHANGED <<config, search, cookie, nreq, returned, probe>>

\* Lines 462-504: the result is stored in the session and the page rendered;
\* the response carries the session back to the browser.
HomePostFinish(t) ==
    /\ threads[t].pc = "searching"
    /\ threads[t].search.pc = "done"
    /\ LET res == home_result(threads[t].search, threads[t].search.target_rgb)
           sess == home_store(threads[t].session, res)
       IN  /\ cookie' = [cookie EXCEPT ![threads[t].user] = sess]
           /\ threads' = [threads EXCEPT ![t] = IdleThread]
    /\ UNCHANGED <<config, search, nreq, returned, probe>>

\* Lines 534-539: sr, sg, sb parse, then START_RGB and the session are set.
SaveSettingsRgb(t) ==
    /\ threads[t].pc = "save_settings"
    /\ LET f == threads[t].req.form
       IN  IF parses(f.sr) /\ parses(f.sg) /\ parses(f.sb)
           THEN /\ config' = [config EXCEPT
                      !.START_RGB = <<int(f.sr), int(f.sg), int(f.sb)>>]
                /\ threads' = [threads EXCEPT
                      ![t].session.start_rgb = Some(<<int(f.sr), int(f.sg), int(f.sb)>>),
                      ![t].modified = TRUE,
                      ![t].pc = "save_add"]
           ELSE /\ threads' = [threads EXCEPT ![t].pc = "respond"]
                /\ UNCHANGED config
    /\ UNCHANGED <<search, cookie, nreq, returned, probe>>

\* Line 540.
SaveSettingsAdd(t) ==
    /\ threads[t].pc = "save_add"
    /\ LET f == threads[t].req.form
       IN  IF parses(f.add)
           THEN /\ config' = [config EXCEPT !.ADD_VALUE = int(f.add)]
                /\ threads' = [threads EXCEPT ![t].pc = "save_sub"]
           ELSE /\ threads' = [threads EXCEPT ![t].pc = "respond"]
                /\ UNCHANGED config
    /\ UNCHANGED <<search, cookie, nreq, returned, probe>>

\* Line 541.
SaveSettingsSub(t) ==
    /\ threads[t].pc = "save_sub"
    /\ LET f == threads[t].req.form
       IN  IF parses(f.sub)
           THEN /\ config' = [config EXCEPT !.SUB_VALUE = int(f.sub)]
                /\ threads' = [threads EXCEPT ![t].pc = "save_depth"]
           ELSE /\ threads' = [threads EXCEPT ![t].pc = "respond"]
                /\ UNCHANGED config
    /\ UNCHANGED <<search, cookie, nreq, returned, probe>>

\* Line 542.
SaveSettingsDepth(t) ==
    /\ threads[t].pc = "save_depth"
    /\ LET f == threads[t].req.form
       IN  IF parses(f.depth)
           THEN config' = [config EXCEPT !.MAX_DEPTH = int(f.depth)]
           ELSE UNCHANGED config
    /\ threads' = [threads EXCEPT ![t].pc = "respond"]
    /\ UNCHANGED <<search, cookie, nreq, returned, probe>>

\* Lines 547-560.
SaveBaseRgb(t) ==
    /\ threads[t].pc = "save_base_rgb"
    /\ threads' = [threads EXCEPT
          ![t].session = save_base_rgb(@, threads[t].req.form),
          ![t].modified = save_base_rgb(threads[t].session, threads[t].req.form)
                              # threads[t].session,
          ![t].pc = "respond"]
    /\ UNCHANGED <<config, search, cookie, nreq, returned, probe>>

\* Lines 562-573.
UsePreset(t) ==
    /\ threads[t].pc = "use_preset"
    /\ LET idx == threads[t].req.form.preset_idx
           presets == threads[t].session.base_rgbs
       IN  IF 0 <= idx /\ idx < Len(presets)
           THEN /\ config' = [config EXCEPT !.START_RGB = presets[idx + 1].rgb]
                /\ threads' = [threads EXCEPT
                      ![t].session.start_rgb = Some(presets[idx + 1].rgb),
                      ![t].modified = TRUE,
                      ![t].pc = "respond"]
           ELSE /\ threads' = [threads EXCEPT ![t].pc = "respond"]
                /\ UNCHANGED config
    /\ UNCHANGED <<search, cookie, nreq, returned, probe>>

\* Lines 451-453 and 494-504: GET / renders the page with the session's
\* stored result; the session is not assigned to.
HomeGet(t) ==
    /\ threads[t].pc = "home_get"
    /\ threads' = [threads EXCEPT ![t] = IdleThread]
    /\ UNCHANGED <<config, search, cookie, nreq, returned, probe>>

\* The redirect that ends a settings POST carries the session back when the
\* handler assigned to it.
Respond(t) ==
    /\ threads[t].pc = "respond"
    /\ cookie' = IF threads[t].modified
                 THEN [cookie EXCEPT ![threads[t].user] = threads[t].session]
                 ELSE cookie
    /\ threads' = [threads EXCEPT ![t] = IdleThread]
    /\ UNCHANGED <<config, search, nreq, returned, probe>>

WebNext ==
    \E t \in Threads :
        \/ Receive(t)
        \/ BeforeRequest(t)
        \/ HomePostCall(t)
        \/ SearchLoop(t)
        \/ SearchReturn(t)
        \/ HomePostFinish(t)
        \/ HomeGet(t)
        \/ SaveSettingsRgb(t)
        \/ SaveSettingsAdd(t)
        \/ SaveSettingsSub(t)
        \/ SaveSettingsDepth(t)
        \/ SaveBaseRgb(t)
        \/ UsePreset(t)
        \/ Respond(t)

WebSpec == WebInit /\ [][WebNext]_vars

\* The call run to its end with one app.config throughout.
RECURSIVE run_alone(_, _)
run_alone(app_config, s) ==
    IF s.pc = "done" THEN s
    ELSE IF s.q = << >> THEN [s EXCEPT !.pc = "done"]
    ELSE run_alone(app_config, loop_body(app_config, s))

(***************************************************************************)
(* Reference definitions the properties are stated with.                   *)
(***************************************************************************)
DyeSet == { DYES[i] : i \in DOMAIN DYES }

Done == search.pc = "done"
Called == search.pc # "idle"

\* The mask a dye sequence leads to from `mask`, one apply_dye_to_mask a dye.
RECURSIVE replay(_, _, _)
replay(app_config, mask, seq) ==
    IF seq = << >> THEN mask
    ELSE replay(app_config, apply_dye_to_mask(app_config, mask, Head(seq)), Tail(seq))

\* The masks at most n dye applications away from the identity mask.
RECURSIVE masks_within(_, _)
masks_within(app_config, n) ==
    IF n < 0 THEN {}
    ELSE IF n = 0 THEN { start_mask }
    ELSE UNION { {m} \cup { apply_dye_to_mask(app_config, m, d) : d \in DyeSet } :
                    m \in masks_within(app_config, n - 1) }

SetMin(S) == CHOOSE x \in S : \A y \in S : x <= y

\* Every entry ever put on the queue, in the order it was put there: the
\* entries already taken (the log) and then those still waiting.
QueueHistory(s) ==
    [ i \in 1 .. Len(s.log) |-> [mask |-> s.log[i].mask, seq |-> s.log[i].seq] ] \o s.q

\* The same entries as a set.
QueueEntries(s) ==
    { [mask |-> s.log[i].mask, seq |-> s.log[i].seq] : i \in 1 .. Len(s.log) }
        \cup { s.q[i] : i \in 1 .. Len(s.q) }

\* The iterations that passed the depth test (evaluated for best-tracking).
Evaluated(s) == { i \in 1 .. Len(s.log) : s.log[i].act # "continue" }

DyeRank(d) == CHOOSE i \in DOMAIN DYES : DYES[i] = d

\* a comes before b: shorter first, and among equal lengths by the first
\* dye that differs, in the order red, green, blue, black.
SeqBefore(a, b) ==
    \/ Len(a) < Len(b)
    \/ /\ Len(a) = Len(b)
       /\ \E k \in 1 .. Len(a) :
             /\ \A j \in 1 .. (k - 1) : a[j] = b[j]
             /\ DyeRank(a[k]) < DyeRank(b[k])

\* The dye sequences of length at most n.
RECURSIVE seqs_upto(_)
seqs_upto(n) ==
    IF n <= 0 THEN { << >> }
    ELSE LET P == seqs_upto(n - 1)
         IN  P \cup { Append(s, d) : s \in P, d \in DyeSet }

dist_of_mask(s, mask) == manhattan(apply_mask_to_color(s.start_rgb, mask), s.target_rgb)

InByte(x) == x \in 0 .. 255
InRange(t) == InByte(t[1]) /\ InByte(t[2]) /\ InByte(t[3])

(***************************************************************************)
(* Properties of one call run alone (specification Spec).                  *)
(***************************************************************************)
\* C1: the distance returned equals the least distance(project(base, m),
\* target) over all masks m at most depth_bound dye applications away from the
\* identity mask, the identity mask included.
C1_ReturnsMinimumDistance ==
    Done =>
        search.best_diff =
            SetMin({ dist_of_mask(search, m) :
                        m \in masks_within(config, search.max_depth) })

\* A call returned a distance no better reachable mask beats, found at the
\* depth bound itself and not at the start node.
C1_Witness ==
    /\ Done
    /\ search.max_depth >= 2
    /\ Len(search.best_seq) = search.max_depth
    /\ search.best_diff > 0
    /\ search.best_diff < dist_of_mask(search, start_mask)

\* C2: the returned sequence is never longer than depth_bound, and an entry
\* whose sequence is longer than depth_bound is neither evaluated for
\* best-tracking nor expanded.
C2_DepthBoundRespected ==
    Called =>
        /\ Len(search.best_seq) <= search.max_depth
        /\ \A i \in 1 .. Len(search.log) :
              Len(search.log[i].seq) > search.max_depth
                  => search.log[i].act = "continue"
        /\ \A i \in 1 .. Len(search.q) :
              Len(search.q[i].seq) <= search.max_depth + 1

\* A call returned after it skipped an entry deeper than the bound, with a
\* best sequence as long as the bound allows.
C2_Witness ==
    /\ Done
    /\ Len(search.best_seq) = search.max_depth
    /\ search.max_depth >= 1
    /\ \E i \in 1 .. Len(search.log) : search.log[i].act = "continue"

\* C3: replaying the returned sequence from the identity mask with
\* apply_dye_to_mask gives exactly the returned mask.
C3_ReplayGivesReturnedMask ==
    Done => replay(config, start_mask, result(search)[1]) = result(search)[2]

\* A call returned a sequence of two or more dyes, one of them clamped.
C3_Witness ==
    /\ Done
    /\ Len(search.best_seq) >= 2
    /\ \E c \in 1 .. 3 : search.best_mask[c] \in {0, 255}

\* C5: a dequeued entry within the depth bound, the start node included, that
\* is at distance 0 from the target ends the search: it is the last entry
\* dequeued, it is not expanded, and the call returns.
C5_ExactMatchStops ==
    Called =>
        \A i \in Evaluated(search) :
            search.log[i].diff = 0
                => /\ i = Len(search.log)
                   /\ search.log[i].act = "break"
                   /\ search.pc = "done"

\* C6: when the target is the color of the identity mask, the call returns
\* the empty sequence, the identity mask and distance 0, whatever the bound.
C6_StartMatchReturnsEmpty ==
    (Done /\ search.target_rgb = apply_mask_to_color(search.start_rgb, start_mask))
        => /\ result(search)[1] = << >>
           /\ result(search)[2] = start_mask
           /\ result(search)[4] = 0

\* Such a call returned after it met another mask at distance 0.
C6_Witness ==
    /\ Done
    /\ search.target_rgb = apply_mask_to_color(search.start_rgb, start_mask)
    /\ \E i \in Evaluated(search) : i > 1 /\ search.log[i].diff = 0

\* C7: entries are dequeued shorter sequences first and, among equal lengths,
\* in red, green, blue, black order; the returned node is the first of them
\* at the returned distance (a later tie never replaces it), and it is the
\* start node when no sequence within the bound is strictly closer.
C7_FirstBestWins ==
    Done =>
        /\ \A i, j \in 1 .. Len(search.log) :
              i < j => SeqBefore(search.log[i].seq, search.log[j].seq)
        /\ \E i \in Evaluated(search) :
              /\ search.log[i].diff = search.best_diff
              /\ search.log[i].seq = search.best_seq
              /\ search.log[i].mask = search.best_mask
              /\ \A j \in Evaluated(search) :
                    search.log[j].diff = search.best_diff => i <= j
        /\ \A sq \in seqs_upto(search.max_depth) :
              dist_of_mask(search, replay(config, start_mask, sq)) = search.best_diff
                  => sq = search.best_seq \/ SeqBefore(search.best_seq, sq)
        /\ (\A sq \in seqs_upto(search.max_depth) :
              dist_of_mask(search, replay(config, start_mask, sq))
                  >= dist_of_mask(search, start_mask))
              => result(search) = << << >>, start_mask,
                                     apply_mask_to_color(search.start_rgb, start_mask),
                                     dist_of_mask(search, start_mask) >>

\* A call returned a node other than the start node after a later node of
\* another mask tied with it.
C7_Witness ==
    /\ Done
    /\ search.best_seq # << >>
    /\ \E j \in Evaluated(search) :
          /\ search.log[j].diff = search.best_diff
          /\ search.log[j].mask # search.best_mask

\* C8: every mask (the start mask, every mask enqueued or visited, the best
\* mask) and every color derived from one has its channels in 0..255.
C8_ChannelsInRange ==
    Called =>
        /\ InRange(start_mask)
        /\ \A m \in search.visited :
              InRange(m) /\ InRange(apply_mask_to_color(search.start_rgb, m))
        /\ \A i \in 1 .. Len(search.q) : InRange(search.q[i].mask)
        /\ \A i \in 1 .. Len(search.log) : InRange(search.log[i].mask)
        /\ InRange(search.best_mask)
        /\ InRange(search.best_color)

\* A dye was applied whose delta took a channel below 0 and another above 255.
C8_Witness ==
    /\ Called
    /\ \E i \in 1 .. Len(search.log) : \E d \in DyeSet :
          LET dv == dye_vector(d, config.ADD_VALUE, config.SUB_VALUE)
              m == search.log[i].mask
          IN  /\ search.log[i].act = "expand"
              /\ \E c \in 1 .. 3 : m[c] + dv[c] < 0
              /\ \E c \in 1 .. 3 : m[c] + dv[c] > 255

\* C9: no two entries of the call's queue history carry the same mask: the
\* history holds as many distinct masks as it has entries.
C9_MaskEnqueuedOnce ==
    Called =>
        Cardinality({ e.mask : e \in QueueEntries(search) })
            = Len(search.log) + Len(search.q)

\* An expanded entry had a dye leading to a mask that was on the queue
\* history already, under another sequence.
C9_Witness ==
    /\ Called
    /\ LET H == QueueHistory(search)
       IN  \E i \in 1 .. Len(search.log) : \E d \in DyeSet : \E k \in 1 .. Len(H) :
              /\ search.log[i].act = "expand"
              /\ H[k].mask = apply_dye_to_mask(config, search.log[i].mask, d)
              /\ H[k].seq # Append(search.log[i].seq, d)
              /\ H[k].mask # search.log[i].mask

\* C10: the sequence of every enqueued entry leads to the entry's mask and
\* is a shortest one: no mask of the queue history is reachable from the
\* identity mask in fewer dye applications.  The returned pair is such an
\* entry.
C10_ShortestSequence ==
    Called =>
        /\ \A e \in QueueEntries(search) :
              /\ replay(config, start_mask, e.seq) = e.mask
              /\ Len(e.seq) <= search.max_depth + 1
        /\ \A n \in 0 .. search.max_depth :
              { e.mask : e \in { x \in QueueEntries(search) : Len(x.seq) = n + 1 } }
                  \cap masks_within(config, n) = {}
        /\ [mask |-> search.best_mask, seq |-> search.best_seq]
              \in QueueEntries(search)

\* An entry was enqueued under a two-dye sequence although a three-dye
\* sequence leads to its mask too.
C10_Witness ==
    /\ Called
    /\ \E i \in 1 .. Len(search.q) :
          /\ Len(search.q[i].seq) = 2
          /\ \E sq \in seqs_upto(3) :
                /\ Len(sq) = 3
                /\ replay(config, start_mask, sq) = search.q[i].mask

(***************************************************************************)
(* Properties of searches run by concurrent requests (WebSpec).            *)
(***************************************************************************)
\* C4: a search that ran interleaved with other requests returns what the
\* same search returns when run alone with the base color, add, sub and
\* depth bound in force when it started.
C4_SearchUnaffectedByOthers ==
    \A t \in Threads :
        (threads[t].pc = "searching" /\ threads[t].search.pc = "done")
            => result(threads[t].search) =
                 result(run_alone(the(threads[t].cfg0),
                                  find_sequence_to_target(the(threads[t].cfg0),
                                                          threads[t].search.target_rgb)))


(***************************************************************************)
(* Termination without the depth bound (DeepSpec).                         *)
(***************************************************************************)
\* Every mask some number of dye applications leads to from the masks of S.
RECURSIVE masks_closure(_, _)
masks_closure(app_config, S) ==
    IF \A m \in S : \A d \in DyeSet : apply_dye_to_mask(app_config, m, d) \in S
    THEN S
    ELSE masks_closure(app_config,
             UNION { {m} \cup { apply_dye_to_mask(app_config, m, d) : d \in DyeSet } :
                        m \in S })

\* C11: the search always terminates, also when the depth bound never cuts a
\* node off: the entries it ever enqueues are no more than the masks there
\* are, every iteration takes one of them, and the call returns (the queue
\* empties or an exact match breaks the loop).
C11_SearchTerminates ==
    /\ [](Called =>
            /\ Len(search.log) + Len(search.q)
                  <= Cardinality(masks_closure(config, { start_mask }))
            /\ \A i \in 1 .. Len(search.log) : search.log[i].act # "continue")
    /\ (Called ~> Done)

\* A call returned with an empty queue after it took every mask there is,
\* some of them nine dyes deep, and the depth bound cut none off.
C11_Witness ==
    /\ Done
    /\ search.q = << >>
    /\ \A i \in 1 .. Len(search.log) : search.log[i].act = "expand"
    /\ \E i \in 1 .. Len(search.log) : Len(search.log[i].seq) >= 9
    /\ Len(search.log) = Cardinality(masks_closure(config, { start_mask }))


(***************************************************************************)
(* More properties of one call run alone (Spec).                           *)
(***************************************************************************)
\* C12: with depth bound 0 only the start node is evaluated for
\* best-tracking, and the call returns the empty sequence, the identity
\* mask, the color of the identity mask and that color's distance to the
\* target, whatever the base and the target.
C12_DepthZeroReturnsStart ==
    (Called /\ search.max_depth = 0) =>
        /\ Evaluated(search) \subseteq { 1 }
        /\ \A i \in Evaluated(search) : search.log[i].seq = << >>
        /\ Done =>
              result(search) =
                  << << >>, start_mask,
                     apply_mask_to_color(config.START_RGB, start_mask),
                     manhattan(apply_mask_to_color(config.START_RGB, start_mask),
                               search.target_rgb) >>

\* A call with depth bound 0 returned after it skipped a one-dye entry that
\* is closer to the target than the start node.
C12_Witness ==
    /\ Done
    /\ search.max_depth = 0
    /\ \E i \in 1 .. Len(search.log) :
          /\ search.log[i].act = "continue"
          /\ dist_of_mask(search, search.log[i].mask) < search.best_diff


(***************************************************************************)
(* Calls made one after another (SeqSpec).                                 *)
(***************************************************************************)
SameInputs(a, b) ==
    /\ a.base = b.base /\ a.target = b.target
    /\ a.add = b.add /\ a.sub = b.sub /\ a.depth = b.depth

\* C13: two calls with the same base color, target color, add, sub and
\* depth bound return the same (sequence, mask, color, distance), whatever
\* calls were made before them.
C13_SameInputsSameResult ==
    \A i, j \in 1 .. Len(returned) :
        SameInputs(returned[i], returned[j])
            => returned[i].result = returned[j].result

\* Two calls with the same inputs returned a sequence of dyes, and a call
\* with another target and other settings was made between them.
C13_Witness ==
    \E i, k, j \in 1 .. Len(returned) :
        /\ i < k /\ k < j
        /\ SameInputs(returned[i], returned[j])
        /\ returned[k].target # returned[i].target
        /\ returned[k].add # returned[i].add
        /\ Len(returned[i].result[1]) >= 1

(***************************************************************************)
(* apply_dye_to_mask (DyeSpec).                                            *)
(***************************************************************************)
\* The table of the statement, written out per dye and channel.
Delta(dye, add, sub) ==
    [ red   |-> << add, 0 - sub, 0 - sub >>,
      green |-> << 0 - sub, add, 0 - sub >>,
      blue  |-> << 0 - sub, 0 - sub, add >>,
      black |-> << 0 - 32, 0 - 32, 0 - 32 >> ][dye]

Clamped(x) == IF x < 0 THEN 0 ELSE IF x > 255 THEN 255 ELSE x

C15_BestDistanceNonIncreasing ==
    [][search.pc = "loop" => search'.best_diff <= search.best_diff]_vars

\* A call that returned after its best distance dropped twice below the
\* distance of the start entry, and after a later entry with a larger
\* distance than the best was dequeued.
C15_Witness ==
    /\ Done
    /\ \E i, j, k \in Evaluated(search) :
          /\ i < j /\ j < k
          /\ search.log[i].diff < search.log[1].diff
          /\ search.log[j].diff < search.log[i].diff
          /\ search.log[j].diff = search.best_diff
          /\ search.log[k].diff > search.best_diff

(***************************************************************************)
(* Requests with invalid input (WebSpec).                                  *)
(***************************************************************************)
ValidChannel(field) == parses(field) /\ int(field) \in 0 .. 255

\* C16: no search runs in a request whose target does not parse or lies
\* outside [0,255]: whenever a thread is searching, the r, g and b fields
\* of its form are integers in [0,255], so the target is never a
\* substituted (0,0,0).
C16_InvalidInputRejected ==
    \A t \in Threads :
        threads[t].pc = "searching" =>
            /\ ValidChannel(threads[t].req.form.r)
            /\ ValidChannel(threads[t].req.form.g)
            /\ ValidChannel(threads[t].req.form.b)

(***************************************************************************)
(* The shipped settings (ShippedSpec).                                     *)
(***************************************************************************)
\* C17: with base (241,219,29), add 32, sub 16, depth bound 48 and target
\* (0,0,0), the call returns distance 0, mask (0,0,0), color (0,0,0) and a
\* sequence in which every dye is black; the loop of such a call never
\* finds its queue empty.
C17_AllBlackToZero ==
    /\ search.pc = "loop" => search.q # << >>
    /\ (Done /\ search.target_rgb = <<0, 0, 0>>) =>
          /\ config = ShippedConfig
          /\ result(search)[4] = 0
          /\ result(search)[2] = <<0, 0, 0>>
          /\ result(search)[3] = <<0, 0, 0>>
          /\ \A i \in 1 .. Len(result(search)[1]) : result(search)[1][i] = "black"

\* The call for (0,0,0) returned eight dyes, after entries led by red,
\* green and blue were evaluated too.
C17_Witness ==
    /\ Done /\ search.target_rgb = <<0, 0, 0>>
    /\ Len(result(search)[1]) = 8
    /\ replay(config, start_mask, result(search)[1]) = <<0, 0, 0>>
    /\ \A d \in DyeSet : \E i \in Evaluated(search) :
          Len(search.log[i].seq) = 7 /\ search.log[i].seq[1] = d

(***************************************************************************)
(* One step towards red (Spec).                                            *)
(***************************************************************************)
OneStepConfig ==
    [ START_RGB |-> <<241, 219, 29>>, ADD_VALUE |-> 32, SUB_VALUE |-> 16,
      MAX_DEPTH |-> 1 ]

\* C18: with base (241,219,29), add 32, sub 16, depth bound 1 and target
\* (255,0,0), the call returns the sequence [red] with mask (255,239,239),
\* and the returned distance is the distance from the color of that mask
\* on the base to the target, 246.
C18_OneStepRed ==
    (Done /\ config = OneStepConfig /\ search.target_rgb = <<255, 0, 0>>) =>
        /\ result(search)[1] = << "red" >>
        /\ result(search)[2] = <<255, 239, 239>>
        /\ result(search)[4] =
              manhattan(apply_mask_to_color(<<241, 219, 29>>, <<255, 239, 239>>),
                        <<255, 0, 0>>)
        /\ result(search)[4] = 246

\* That call returned, after the four one-dye entries were evaluated and
\* their children were dequeued and skipped.
C18_Witness ==
    /\ Done /\ config = OneStepConfig /\ search.target_rgb = <<255, 0, 0>>
    /\ search.q = << >>
    /\ \A d \in DyeSet : \E i \in Evaluated(search) : search.log[i].seq = << d >>
    /\ \E i \in 1 .. Len(search.log) :
          search.log[i].act = "continue" /\ Len(search.log[i].seq) = 2

(***************************************************************************)
(* pretty_sequence (FormatSpec).                                           *)
(***************************************************************************)
\* n copies of each group's token, the groups in order.
RECURSIVE ungroup(_)
ungroup(ps) ==
    IF ps = << >> THEN << >>
    ELSE [i \in 1 .. ps[1].n |-> ps[1].token] \o ungroup(Tail(ps))

\* C19: the groups (n, token) pretty_sequence emits expand back to the
\* input sequence, every n is at least 1, two adjacent groups never carry
\* the same token, and the empty sequence gives the 'No dyes applied'
\* marker and no group.
C19_RunLengthGroups ==
    probe.pc = "formatted" =>
        LET ps == probe.out.parts
        IN  /\ ungroup(ps) = probe.seq
            /\ \A i \in 1 .. Len(ps) : ps[i].n >= 1
            /\ \A i \in 1 .. Len(ps) - 1 : ps[i].token # ps[i + 1].token
            /\ probe.seq = << >> =>
                  probe.out.marker = "No dyes applied" /\ ps = << >>

\* red, red, black, red formatted as 2x red, 1x black, 1x red: a run, and a
\* token that comes back after another one.
C19_Witness ==
    /\ probe.pc = "formatted"
    /\ probe.seq = << "red", "red", "black", "red" >>
    /\ probe.out.parts = << [n |-> 2, token |-> "red"], [n |-> 1, token |-> "black"],
                            [n |-> 1, token |-> "red"] >>

(***************************************************************************)
(* The base color of a user's search (WebSpec).                            *)
(***************************************************************************)
\* C20: a search in a request of a user whose session holds a saved
\* start_rgb uses that start_rgb as its base color, whatever requests of
\* other users are handled between the before-request hook and the search.
C20_SearchUsesOwnStartRgb ==
    \A t \in Threads :
        (threads[t].pc = "searching" /\ threads[t].session.start_rgb # None)
            => threads[t].search.start_rgb = the(threads[t].session.start_rgb)

(***************************************************************************)
(* The history of a session (WebSpec).                                     *)
(***************************************************************************)
\* The search POST of user u stores its result in this step.
StoresSearch(u) ==
    \E t \in Threads :
        /\ threads[t].pc = "searching" /\ threads[t].search.pc = "done"
        /\ threads[t].user = u
        /\ threads'[t].pc = "idle"

\* C21: a session's history holds at most 10 entries, the most recent
\* searches of the session in their order: the step in which a search POST
\* stores its result appends one entry to the history the session held,
\* dropping the oldest beyond 10, and no other step changes that history.
C21_HistoryKeepsRecentSearches ==
    [][\A u \in Users :
          LET old == cookie[u].history
              new == cookie'[u].history
          IN  IF StoresSearch(u)
              THEN /\ Len(new) >= 1 /\ Len(new) <= 10
                   /\ new = last_n(Append(old, new[Len(new)]), 10)
              ELSE new = old]_vars

(***************************************************************************)
(* Save Settings with a field that does not parse (WebSpec).               *)
(***************************************************************************)
SavingSettings(t) ==
    threads[t].pc \in { "save_settings", "save_add", "save_sub", "save_depth" }

AllFieldsParse(f) ==
    /\ parses(f.sr) /\ parses(f.sg) /\ parses(f.sb)
    /\ parses(f.add) /\ parses(f.sub) /\ parses(f.depth)

\* C22: no step of a Save Settings request with a field that does not
\* parse changes START_RGB, ADD_VALUE, SUB_VALUE, MAX_DEPTH or the session's
\* start_rgb; the steps of a request whose fields all parse set each of
\* them to the value of the form.
C22_SaveSettingsAllOrNothing ==
    [][\A t \in Threads :
          (SavingSettings(t) /\ threads'[t] # threads[t]) =>
              LET f == threads[t].req.form
              IN  IF AllFieldsParse(f)
                  THEN /\ threads[t].pc = "save_settings" =>
                             /\ config'.START_RGB = <<int(f.sr), int(f.sg), int(f.sb)>>
                             /\ threads'[t].session.start_rgb =
                                    Some(<<int(f.sr), int(f.sg), int(f.sb)>>)
                       /\ threads[t].pc = "save_add" => config'.ADD_VALUE = int(f.add)
                       /\ threads[t].pc = "save_sub" => config'.SUB_VALUE = int(f.sub)
                       /\ threads[t].pc = "save_depth" => config'.MAX_DEPTH = int(f.depth)
                  ELSE /\ config' = config
                       /\ threads'[t].session = threads[t].session]_vars

(***************************************************************************)
(* The result on the home page and the visualizer's replay (WebSpec).      *)
(***************************************************************************)
\* Thread t is about to render the home page.
RendersHome(t) ==
    \/ threads[t].pc = "home_get"
    \/ threads[t].pc = "searching" /\ threads[t].search.pc = "done"

\* The page it renders.
PageOf(t) ==
    IF threads[t].pc = "home_get"
    THEN home_page(config, threads[t].session, None)
    ELSE LET res == home_result(threads[t].search, threads[t].search.target_rgb)
         IN  home_page(config, home_store(threads[t].session, res), Some(res))

\* C23: for every result the home page displays, a fresh one or the
\* session's stored one, playing its raw_steps from mask (255,255,255) with
\* the start color, add value and sub value of the same page ends at the
\* final mask and the final color displayed.
C23_ReplayMatchesDisplayed ==
    \A t \in Threads :
        (RendersHome(t) /\ PageOf(t).result # None) =>
            LET page == PageOf(t)
                res == the(page.result)
                mask == js_play(<<255, 255, 255>>, res.raw_steps,
                                page.add_value, page.sub_value)
            IN  /\ mask = res.final_mask
                /\ js_applyMaskToColor(page.start_rgb, mask) = res.final_color

=============================================================================
